---- MODULE Spec2Model ----
(***************************************************************************)
(* Model of the DragonSync test-data broadcaster (Tests/testscript.py and  *)
(* Util/testscript.py): the DroneMessageGenerator (drone identity, pilot   *)
(* and home UIDs, the lazily created FPV detection state), the             *)
(* ADSBSimulator and the menu-driven broadcast loops.                      *)
(*                                                                         *)
(* Strings are sequences of one-character strings, so that formatting      *)
(* (f-strings, str.replace) is computed character by character.  A Python  *)
(* number is a record [t |-> "int" or "float", v |-> value]; random draws  *)
(* are taken from finite grids over the range the code draws from.         *)
(***************************************************************************)
EXTENDS Integers, Sequences, FiniteSets, TLC

VARIABLES
    variant,              \* which script runs: "Tests" or "Util"
    wall0,                \* the wall clock when the program started, in seconds since the epoch
    fpv,                  \* generator.current_fpv_detection, NoAttr while the attribute is absent
    current_drone_index,  \* generator.current_drone_index (Tests only; 0 in Util)
    current_drone_id,     \* generator.current_drone_id
    ret,                  \* the last call made and the value it returned
    firstDet,             \* history: <<detection_source of the first detection message>>, <<>> before it
    nupd,                 \* history: number of FPV update calls that found a state
    simulator,            \* ReadsbHTTPHandler.simulator: NoAttr while None, else the ADSBSimulator
    count,                \* history: the count the ADSBSimulator was constructed with
    ncalls,               \* history: number of get_aircraft_json calls made on the simulator
    clock,                \* time.time(), in whole seconds since the program started
    lastSnap,             \* history: the t the last get_aircraft_json call read, and its list
    pc,                   \* where main_menu is: "menu", "loop", "fpv_loop" (choice 6's update loop),
                          \* "adsb_server" (choice A), or "crashed" / "terminated" (the process ended)
    choice,               \* the choice of the running session: "1".."8", or "X1".."X5" for quick test
    counter,              \* ticks begun in this session (quick_test_mode's counter, update_count)
    step,                 \* which call of the tick's script comes next (1 = the tick starts)
    socks,                \* "none", "open" or "closed": the session's transport resources
    session,              \* history: number of broadcast sessions started
    uidLog,               \* history: uids of the drone messages of the running session, in order
    sendError,            \* history: TRUE once sendto / send_string has raised a transport error
    serving,              \* which HTTPServer accepts requests: "no", "A" (menu choice A) or "X5"
    resp,                 \* the last GET request and what the handler sent back for it
    svc                   \* quick-test 5's optional services: the handles mqtt_client and
                          \* tak_socket, and the history of their setup and of their use

vars == <<variant, wall0, fpv, current_drone_index, current_drone_id, ret, firstDet, nupd,
          simulator, count, ncalls, clock, lastSnap, pc, choice, counter, step, socks, session, uidLog,
          sendError, serving, resp, svc>>

genVars  == <<fpv, current_drone_index, current_drone_id, ret, firstDet, nupd>>
adsbVars == <<simulator, count, ncalls, clock, lastSnap>>
menuVars == <<pc, choice, counter, step, socks, session, uidLog, sendError>>
httpVars == <<serving, resp, svc>>

-----------------------------------------------------------------------------
(* Bounds of the model *)

NumFreq == 2      \* how many of the FPV channels random.choice may pick
NumInst == 2      \* how many source_inst values randint(1, 5) may return
NumNode == 1      \* grid points over randint(1000, 9999) for source_node
NumRssi == 2      \* grid points over the initial rssi draw
NumVar == 2       \* grid points over the uniform rssi variation of an update
MaxUpdates == 7   \* FPV updates applied to one state
MaxCount == 3     \* largest ADSBSimulator count
NumHex == 2       \* grid points over randint(0x100000, 0xFFFFFF) for an aircraft hex
NumKin == 1       \* grid points over the uniform draws of an aircraft's speed and phase
MaxCalls == 2     \* get_aircraft_json calls made on one simulator
MaxClock == 2     \* seconds the clock may advance
MaxTicks == 4     \* ticks of one broadcast loop
MaxSessions == 2  \* broadcast sessions started from the menu
MaxParts == 3     \* pieces concatenated into a drone identity given to the UID functions
MaxQuick == 1     \* quick-test option 5 sessions run beside the HTTP server
NumTrack == 2     \* grid points over the uniform draw of the status track

\* The points lo = g(0) < ... < g(n) = hi of an n-interval grid over lo..hi.
Grid(lo, hi, n) == {lo + ((hi - lo) * k) \div n : k \in 0..n}

\* n points of lo..hi, both ends among them: lo alone, or the grid of n - 1 intervals.
GridPoints(lo, hi, n) == IF n <= 1 THEN {lo} ELSE Grid(lo, hi, n - 1)

-----------------------------------------------------------------------------
(* Values and formatting *)

\* An attribute that does not exist yet (hasattr is False) or holds None.
NoAttr == [absent |-> TRUE]

\* What a call returned: None, or a value.
ReturnNone(op) == [op |-> op, returns_none |-> TRUE]
Return(op, val) == [op |-> op, returns_none |-> FALSE, val |-> val]

PyInt(n) == [t |-> "int", v |-> n]
PyFloat(n) == [t |-> "float", v |-> n]

DecDigits == <<"0", "1", "2", "3", "4", "5", "6", "7", "8", "9">>
HexLower == DecDigits \o <<"a", "b", "c", "d", "e", "f">>
HexUpper == DecDigits \o <<"A", "B", "C", "D", "E", "F">>

RECURSIVE Digits(_, _, _)
\* n written in the given base with the given digit characters, no padding.
Digits(n, base, chars) ==
    IF n < base THEN <<chars[n + 1]>>
    ELSE Digits(n \div base, base, chars) \o <<chars[(n % base) + 1]>>

RECURSIVE ZeroPad(_, _)
\* Python's 0-fill: pad on the left to at least w characters, never truncate.
ZeroPad(s, w) == IF Len(s) >= w THEN s ELSE ZeroPad(<<"0">> \o s, w)

Fmt02d(n) == ZeroPad(Digits(n, 10, DecDigits), 2)
Fmt04x(n) == ZeroPad(Digits(n, 16, HexLower), 4)
Fmt06X(n) == ZeroPad(Digits(n, 16, HexUpper), 6)

IsPrefix(p, s) == Len(p) <= Len(s) /\ SubSeq(s, 1, Len(p)) = p

RECURSIVE Replace(_, _, _)
\* str.replace(old, new): every non-overlapping occurrence, scanned left to right.
Replace(s, old, new) ==
    IF s = <<>> THEN <<>>
    ELSE IF IsPrefix(old, s)
         THEN new \o Replace(SubSeq(s, Len(old) + 1, Len(s)), old, new)
         ELSE <<Head(s)>> \o Replace(Tail(s), old, new)

-----------------------------------------------------------------------------
(* Fixed-point arithmetic for the trigonometry and the rounding of the scripts *)

\* math.pi, in thousandths of a radian.
PiMilli == 3142
TwoPiMilli == 6283

\* math.sin of an angle in thousandths of a radian, in thousandths: the angle is
\* reduced to one turn and each half wave is Bhaskara's rational approximation
\* 16 h (pi - h) / (5 pi^2 - 4 h (pi - h)), exact at 0, pi / 2 and pi.
SinMilli(x) ==
    LET r == x % TwoPiMilli
        h == IF r < PiMilli THEN r ELSE r - PiMilli
        p == h * (PiMilli - h)
        v == (16 * p) \div (((5 * PiMilli * PiMilli) - (4 * p)) \div 1000)
    IN  IF r < PiMilli THEN v ELSE 0 - v

\* math.cos, as the sine a quarter turn ahead.
CosMilli(x) == SinMilli(x + (PiMilli \div 2))

Abs(n) == IF n < 0 THEN 0 - n ELSE n

\* math.degrees(math.atan2(y, x)) in hundredths of a degree, in (-18000, 18000]:
\* the arctangent of the smaller over the larger magnitude is approximated by
\* z * 45 + 15.64 * z * (1 - z) degrees and placed in its octant; atan2(0, 0) = 0.
Atan2Centi(y, x) ==
    LET ay == Abs(y)
        ax == Abs(x)
        lo == IF ay <= ax THEN ay ELSE ax
        hi == IF ay <= ax THEN ax ELSE ay
        z == IF hi = 0 THEN 0 ELSE (1000 * lo) \div hi
        a == ((4500 * z) \div 1000) + ((1564 * z * (1000 - z)) \div 1000000)
        first == IF ay <= ax THEN a ELSE 9000 - a
    IN  IF x >= 0 THEN (IF y >= 0 THEN first ELSE 0 - first)
        ELSE (IF y >= 0 THEN 18000 - first ELSE first - 18000)

\* degrees(atan2(y, x)) % 360, in hundredths of a degree.
HeadingCenti(y, x) == Atan2Centi(y, x) % 36000

\* n / d rounded to the nearest integer, ties to the even one, as round(x, k) and
\* the format .kf round the decimal value they are given.
RoundHalfEven(n, d) ==
    LET q == n \div d
        r == n % d
    IN  IF 2 * r < d THEN q
        ELSE IF 2 * r > d THEN q + 1
        ELSE IF q % 2 = 0 THEN q ELSE q + 1

\* round(x, 1) and f"{x:.1f}" of a heading in hundredths of a degree: tenths.
Round1(centi) == RoundHalfEven(centi, 10)

-----------------------------------------------------------------------------
(* The clock and the CoT timestamps *)

\* Wall-clock times at which the program may have been started, in seconds since
\* the epoch: 2026-11-01T12:00:00Z, 2025-12-31T23:49:59Z (ten minutes before the
\* end of a year) and 2024-02-28T23:49:58Z (before a leap day).
StartTimes == <<1793534400, 1767224999, 1709164198>>

\* time.time() and datetime.now(timezone.utc), in whole seconds.
Time == wall0 + clock

\* timedelta(minutes=10), in seconds.
StaleAfter == 600

\* The proleptic Gregorian date of a day number counted from 1970-01-01, as
\* datetime computes it.
CivilFromDays(days) ==
    LET z == days + 719468
        era == z \div 146097
        doe == z - (era * 146097)
        yoe == (doe - (doe \div 1460) + (doe \div 36524) - (doe \div 146096)) \div 365
        doy == doe - ((365 * yoe) + (yoe \div 4) - (yoe \div 100))
        mp == ((5 * doy) + 2) \div 153
        d == doy - (((153 * mp) + 2) \div 5) + 1
        m == IF mp < 10 THEN mp + 3 ELSE mp - 9
        y == yoe + (era * 400) + (IF m <= 2 THEN 1 ELSE 0)
    IN  [year |-> y, month |-> m, day |-> d]

Fmt04d(n) == ZeroPad(Digits(n, 10, DecDigits), 4)
Fmt06d(n) == ZeroPad(Digits(n, 10, DecDigits), 6)

\* strftime("%Y-%m-%dT%H:%M:%S.%fZ") of a whole second of UTC.
Strftime(secs) ==
    LET date == CivilFromDays(secs \div 86400)
        sod == secs % 86400
    IN  Fmt04d(date.year) \o <<"-">> \o Fmt02d(date.month) \o <<"-">> \o Fmt02d(date.day)
        \o <<"T">> \o Fmt02d(sod \div 3600) \o <<":">> \o Fmt02d((sod % 3600) \div 60)
        \o <<":">> \o Fmt02d(sod % 60) \o <<".">> \o Fmt06d(0) \o <<"Z">>

\* Mutant: stale is counted from the start of the program, not from now.
TimestampsStaleFromStart(now) ==
    [time |-> Strftime(now), start |-> Strftime(now), stale |-> Strftime(wall0 + StaleAfter)]

\* get_timestamps, and the same three lines in generate_status_message and in
\* test_opensky_api: one reading of the clock gives time, start and stale.
Timestamps(now) ==
    [time |-> Strftime(now), start |-> Strftime(now), stale |-> Strftime(now + StaleAfter)]

-----------------------------------------------------------------------------
(* Headings *)

\* t = time.time() * 0.1 as an angle, in thousandths of a radian.
PathAngle(time) == ((time % TwoPiMilli) * 100) % TwoPiMilli

\* course = degrees(atan2(dx, dy)) % 360 with dx = cos(2 t) * radius_lon and
\* dy = cos(t) * radius_lat, the two radii being equal; hundredths of a degree.
CourseCenti(time) ==
    HeadingCenti(CosMilli(2 * PathAngle(time)), CosMilli(PathAngle(time)))

\* Mutant: the Util direction is the course itself, not turned.
DirectionCentiNotTurned(time) == CourseCenti(time)

\* The direction of the ESP32 message before rounding: Tests takes the course,
\* Util turns it 90 degrees left.
DirectionCenti(time) ==
    IF variant = "Tests" THEN CourseCenti(time)
    ELSE (Atan2Centi(CosMilli(2 * PathAngle(time)), CosMilli(PathAngle(time))) - 9000) % 36000

\* random.uniform(0, 360), in hundredths of a degree: the largest value is the
\* last one below 360.
TrackDraws == GridPoints(0, 35999, NumTrack)

-----------------------------------------------------------------------------
(* DroneMessageGenerator: construction and drone identity *)

drone_ids ==
    << <<"1","1","2","6","2","4","1","5","0","A","9","0","E","3","A","E","1","E","C","0">>,
       <<"3","N","Z","D","J","1","Y","0","0","1","0","A","B","C">>,
       <<"1","8","6","9","6","0","0","X","X","Y","Y","Z","Z">> >>

\* Util: f"{random.randint(100, 100)}"
UtilDroneId == Digits(100, 10, DecDigits)
\* Util: the uid of the ESP32 message, f"{random.randint(103, 103)}"
UtilEsp32Id == Digits(103, 10, DecDigits)

DronePrefix == <<"d", "r", "o", "n", "e", "-">>
PilotPrefix == <<"p", "i", "l", "o", "t", "-">>
HomePrefix == <<"h", "o", "m", "e", "-">>

InitialDroneId == IF variant = "Tests" THEN drone_ids[1] ELSE UtilDroneId

\* Mutant: the index advances by two.
NextDroneIndexByTwo(i) == IF variant = "Tests" THEN (i + 2) % Len(drone_ids) ELSE i

\* The index after one drone message: Tests advances round-robin, Util has no index.
NextDroneIndex(i) == IF variant = "Tests" THEN (i + 1) % Len(drone_ids) ELSE i

\* The uid a drone CoT carries, given the index after the advance.
DroneCotUid(i) == IF variant = "Tests" THEN drone_ids[i + 1] ELSE UtilDroneId

\* Mutant: the ESP32 message always carries the first id.
Esp32UidFirst(i) == IF variant = "Tests" THEN drone_ids[1] ELSE UtilEsp32Id

\* The uid an ESP32 message carries, given the index after the advance.
Esp32Uid(i) == IF variant = "Tests" THEN drone_ids[i + 1] ELSE UtilEsp32Id

\* Mutant: the drone message leaves current_drone_id as it was.
DroneIdAfterStale(uid, cur) == cur

\* current_drone_id after a drone message: Tests stores the uid, Util never writes it.
DroneIdAfter(uid, cur) == IF variant = "Tests" THEN uid ELSE cur

BaseId(id) == Replace(id, DronePrefix, <<>>)
PilotUid(id) == PilotPrefix \o BaseId(id)
HomeUid(id) == HomePrefix \o BaseId(id)

-----------------------------------------------------------------------------
(* DroneMessageGenerator: the FPV detection state *)

FreqChannels ==
    <<5621, 5645, 5665, 5685, 5705, 5725, 5745, 5765, 5785, 5805, 5825, 5845, 5865, 5885>>
UtilFrequency == 5645
ClampLo == 1000
ClampHi == 1600
\* 0x8e89bed6, written as its decimal digits: the number exceeds 32 bits.
AdvertisingAddress == "2391391958"
TimeStep == 10

MHz == <<"M", "H", "z">>

\* The values each random draw of generate_fpv_detection_message may return.
FreqDraws ==
    IF variant = "Tests" THEN {FreqChannels[i] : i \in 1..NumFreq} ELSE {UtilFrequency}
BandwidthDraws ==
    IF variant = "Tests" THEN {Digits(b, 10, DecDigits) \o MHz : b \in {20, 40}}
    ELSE {<<"2", "0", " ">> \o MHz}
RssiDraws ==
    IF variant = "Tests" THEN GridPoints(1200, 1400, NumRssi)
    ELSE GridPoints(1250, 3500, NumRssi)
InstDraws ==
    IF variant = "Tests" THEN {Fmt02d(n) : n \in 1..NumInst} ELSE {<<"0", "1">>}
NodeDraws ==
    IF variant = "Tests" THEN {Fmt04x(n) : n \in GridPoints(1000, 9999, NumNode)}
    ELSE {<<"6", "9", "1", "4">>}
\* The values random.uniform may add to the rssi in generate_fpv_update_message.
VariationDraws ==
    IF variant = "Tests" THEN GridPoints(-30, 30, NumVar) ELSE GridPoints(-5, 5, NumVar)

\* Distances are in half metres, so that (rssi - 1200) * 0.5 stays an integer.
HalfM(metres) == 2 * metres

\* The empirical distance formula of the fresh draw and of the update.
Distance(rssi) ==
    IF rssi >= 2000 THEN HalfM(10)
    ELSE IF rssi >= 1800 THEN HalfM(25)
    ELSE IF rssi >= 1600 THEN HalfM(50)
    ELSE IF rssi >= 1400 THEN HalfM(100)
    ELSE IF rssi >= 1200 THEN HalfM(300) - (rssi - 1200)
    ELSE IF rssi >= 1000 THEN HalfM(500)
    ELSE HalfM(1000)

\* The distance recalculated when a detection reuses the stored state.
ReuseDistance(rssi) ==
    IF rssi >= 1400 THEN HalfM(100)
    ELSE IF rssi >= 1200 THEN HalfM(300) - (rssi - 1200)
    ELSE HalfM(200)

\* The values drawn at the start of a detection call, as the state they would create.
FreshDetection(frequency, source_inst, source_node, rssi) ==
    IF variant = "Tests"
    THEN [frequency |-> frequency, source_inst |-> source_inst, source_node |-> source_node,
          detection_source |-> source_inst \o <<"-">> \o source_node,
          rssi |-> PyInt(rssi), time |-> 0]
    ELSE [frequency |-> frequency, source_inst |-> source_inst, source_node |-> source_node,
          detection_source |-> source_inst \o <<"-">> \o source_node,
          rssi |-> PyInt(rssi)]

\* Mutant: the detection call overwrites the stored state with its fresh draws.
FpvRegenerated(cur, fresh) == fresh

\* "Initialize or reuse existing detection": the state after a detection call.
FpvAfterDetection(cur, fresh) == IF cur = NoAttr THEN fresh ELSE cur

\* Mutant: the detection message reports the fresh draws although a state exists.
DetectionMessageFresh(cur, fresh, bandwidth) ==
    IF variant = "Tests"
    THEN << [FPV_Detection |->
               [manufacturer |-> fresh.source_inst,
                device_type |-> <<"F", "P", "V">> \o Digits(fresh.frequency, 10, DecDigits) \o MHz,
                frequency |-> fresh.frequency,
                bandwidth |-> bandwidth,
                signal_strength |-> fresh.rssi,
                detection_source |-> fresh.detection_source,
                status |-> "NEW CONTACT LOCK",
                estimated_distance |-> PyFloat(Distance(fresh.rssi.v))]] >>
    ELSE << [FPV_Detection |->
               [frequency |-> fresh.frequency,
                bandwidth |-> bandwidth,
                signal_strength |-> fresh.rssi,
                detection_source |-> fresh.detection_source]] >>

\* The list a detection call serialises, from the state it leaves behind.
DetectionMessage(cur, fresh, bandwidth) ==
    LET d == FpvAfterDetection(cur, fresh)
        distance == IF cur = NoAttr THEN Distance(fresh.rssi.v) ELSE ReuseDistance(d.rssi.v)
    IN  IF variant = "Tests"
        THEN << [FPV_Detection |->
                   [manufacturer |-> d.source_inst,
                    device_type |-> <<"F", "P", "V">> \o Digits(d.frequency, 10, DecDigits) \o MHz,
                    frequency |-> d.frequency,
                    bandwidth |-> bandwidth,
                    signal_strength |-> d.rssi,
                    detection_source |-> d.detection_source,
                    status |-> "NEW CONTACT LOCK",
                    estimated_distance |-> PyFloat(distance)]] >>
        ELSE << [FPV_Detection |->
                   [frequency |-> d.frequency,
                    bandwidth |-> bandwidth,
                    signal_strength |-> d.rssi,
                    detection_source |-> d.detection_source]] >>

\* Mutant: only the upper bound is applied.
ClampUpperOnly(x) == IF x.v < ClampHi THEN x ELSE PyInt(ClampHi)

\* max(1000, min(1600, rssi)): Python's min and max return the bound itself, an
\* int, when the float does not lie strictly inside.
Clamp(x) ==
    LET lo == IF x.v < ClampHi THEN x ELSE PyInt(ClampHi)
    IN  IF lo.v > ClampLo THEN lo ELSE PyInt(ClampLo)

\* The rssi an update stores and reports: the stored value plus a float variation.
UpdatedRssi(cur, variation) ==
    IF variant = "Tests" THEN Clamp(PyFloat(cur.rssi.v + variation))
    ELSE PyFloat(cur.rssi.v + variation)

\* Mutant: the state expires, an update removing it once it has been updated.
FpvAfterUpdateExpiring(cur, variation) ==
    IF nupd >= 1 THEN NoAttr
    ELSE [cur EXCEPT !.rssi = UpdatedRssi(cur, variation)]

\* Mutant: the update retunes the stored state to the first channel.
FpvAfterUpdateRetuned(cur, variation) ==
    [cur EXCEPT !.rssi = UpdatedRssi(cur, variation), !.frequency = FreqChannels[1]]

\* The state after an update call that found a state.
FpvAfterUpdate(cur, variation) ==
    IF variant = "Tests"
    THEN [cur EXCEPT !.rssi = UpdatedRssi(cur, variation), !.time = @ + TimeStep]
    ELSE [cur EXCEPT !.rssi = UpdatedRssi(cur, variation)]

AdvA(detection_source) ==
    IF variant = "Tests" THEN detection_source \o <<" ", "r", "a", "n", "d", "o", "m">>
    ELSE detection_source

\* The object an update call serialises.
UpdateMessage(cur, variation) ==
    LET rssi == UpdatedRssi(cur, variation)
    IN  IF variant = "Tests"
        THEN [AUX_ADV_IND |-> [rssi |-> rssi, aa |-> AdvertisingAddress],
              aext |-> [AdvA |-> AdvA(cur.detection_source)],
              AdvData |-> "020116faff0d01",
              distance |-> PyFloat(Distance(rssi.v)),
              frequency |-> cur.frequency]
        ELSE [AUX_ADV_IND |-> [rssi |-> rssi, aa |-> AdvertisingAddress],
              aext |-> [AdvA |-> AdvA(cur.detection_source)],
              frequency |-> UtilFrequency]

\* What generate_fpv_update_message returns.
UpdateReturn(cur, variation) ==
    IF cur = NoAttr THEN ReturnNone("fpv_update")
    ELSE Return("fpv_update", UpdateMessage(cur, variation))

\* Mutant: an update that finds no state creates one instead of leaving it absent.
UpdateStateCreates(cur, variation) ==
    IF cur = NoAttr
    THEN FreshDetection(UtilFrequency, <<"0", "1">>, <<"6", "9", "1", "4">>, ClampLo)
    ELSE FpvAfterUpdate(cur, variation)

\* The FPV state generate_fpv_update_message leaves behind.
UpdateState(cur, variation) ==
    IF cur = NoAttr THEN cur ELSE FpvAfterUpdate(cur, variation)

generate_fpv_detection_message ==
    \E frequency \in FreqDraws, bandwidth \in BandwidthDraws, rssi \in RssiDraws,
       source_inst \in InstDraws, source_node \in NodeDraws :
        LET fresh == FreshDetection(frequency, source_inst, source_node, rssi)
            msg == DetectionMessage(fpv, fresh, bandwidth)
        IN  /\ fpv' = FpvAfterDetection(fpv, fresh)
            /\ ret' = Return("fpv_detection", msg)
            /\ firstDet' = IF firstDet = <<>>
                           THEN <<msg[1].FPV_Detection.detection_source>> ELSE firstDet
            /\ UNCHANGED <<current_drone_index, current_drone_id, nupd>>

generate_fpv_update_message ==
    /\ nupd < MaxUpdates
    /\ \E variation \in VariationDraws :
        /\ fpv' = UpdateState(fpv, variation)
        /\ ret' = UpdateReturn(fpv, variation)
    /\ nupd' = IF fpv = NoAttr THEN nupd ELSE nupd + 1
    /\ UNCHANGED <<current_drone_index, current_drone_id, firstDet>>

generate_drone_cot_with_track ==
    LET i == NextDroneIndex(current_drone_index)
        uid == DroneCotUid(i)
    IN  /\ current_drone_index' = i
        /\ current_drone_id' = DroneIdAfter(uid, current_drone_id)
        /\ ret' = Return("drone_cot",
                         [uid |-> uid, type |-> "a-u-A-M-H-R", course |-> Round1(CourseCenti(Time))]
                         @@ Timestamps(Time))
        /\ UNCHANGED <<fpv, firstDet, nupd>>

generate_esp32_format ==
    LET i == NextDroneIndex(current_drone_index)
        uid == Esp32Uid(i)
    IN  /\ current_drone_index' = i
        /\ current_drone_id' = DroneIdAfter(uid, current_drone_id)
        /\ ret' = Return("esp32",
                         [uid |-> uid, id_type |-> "Serial Number (ANSI/CTA-2063-A)",
                          runtime |-> Time,
                          direction |-> Round1(DirectionCenti(Time))])
        /\ UNCHANGED <<fpv, firstDet, nupd>>

generate_pilot_cot ==
    /\ ret' = Return("pilot_cot",
                     [uid |-> PilotUid(current_drone_id), type |-> "b-m-p-s-m"] @@ Timestamps(Time))
    /\ UNCHANGED <<fpv, current_drone_index, current_drone_id, firstDet, nupd>>

generate_home_cot ==
    /\ ret' = Return("home_cot",
                     [uid |-> HomeUid(current_drone_id), type |-> "b-m-p-s-m"] @@ Timestamps(Time))
    /\ UNCHANGED <<fpv, current_drone_index, current_drone_id, firstDet, nupd>>

generate_status_message ==
    /\ \E track \in TrackDraws :
        ret' = Return("status",
                      [type |-> "a-f-G-E-S", track |-> Round1(track)] @@ Timestamps(Time))
    /\ UNCHANGED <<fpv, current_drone_index, current_drone_id, firstDet, nupd>>

\* test_opensky_api: the CoT event built for one aircraft of the OpenSky reply.
opensky_cot ==
    /\ ret' = Return("opensky_cot", [type |-> "a-f-A-C-F"] @@ Timestamps(Time))
    /\ UNCHANGED <<fpv, current_drone_index, current_drone_id, firstDet, nupd>>

-----------------------------------------------------------------------------
(* The generator driven call by call, in any order *)

InitGenerator ==
    /\ fpv = NoAttr
    /\ current_drone_index = 0
    /\ current_drone_id = InitialDroneId
    /\ ret = ReturnNone("init")
    /\ firstDet = <<>>
    /\ nupd = 0

InitADSB ==
    /\ simulator = NoAttr /\ count = 0 /\ ncalls = 0 /\ clock = 0
    /\ lastSnap = NoAttr

\* No request has been made yet.
NoRequest == [path |-> "", sent |-> FALSE]

\* mqtt_client = None and tak_socket = None; no setup has been attempted, no
\* publish or send has been made or has failed.
NoServices ==
    [mqtt_client |-> "none", tak_socket |-> "none", setup |-> <<>>,
     mqttTick |-> 0, takTick |-> 0, failed |-> {}]

InitHttp == serving = "no" /\ resp = NoRequest /\ svc = NoServices

InitMenu ==
    /\ pc = "menu" /\ choice = "-" /\ counter = 0 /\ step = 1
    /\ socks = "none" /\ session = 0 /\ uidLog = <<>> /\ sendError = FALSE

Init ==
    /\ variant \in {"Tests", "Util"}
    /\ wall0 = StartTimes[1]
    /\ InitGenerator
    /\ InitADSB
    /\ InitMenu
    /\ InitHttp

CallFpvDetection == generate_fpv_detection_message /\ UNCHANGED <<variant, wall0, adsbVars, menuVars, httpVars>>
CallFpvUpdate == generate_fpv_update_message /\ UNCHANGED <<variant, wall0, adsbVars, menuVars, httpVars>>
CallDroneCot == generate_drone_cot_with_track /\ UNCHANGED <<variant, wall0, adsbVars, menuVars, httpVars>>
CallEsp32 == generate_esp32_format /\ UNCHANGED <<variant, wall0, adsbVars, menuVars, httpVars>>
CallPilotCot == generate_pilot_cot /\ UNCHANGED <<variant, wall0, adsbVars, menuVars, httpVars>>
CallHomeCot == generate_home_cot /\ UNCHANGED <<variant, wall0, adsbVars, menuVars, httpVars>>
CallStatus == generate_status_message /\ UNCHANGED <<variant, wall0, adsbVars, menuVars, httpVars>>

Next ==
    \/ CallFpvDetection
    \/ CallFpvUpdate
    \/ CallDroneCot
    \/ CallEsp32
    \/ CallPilotCot
    \/ CallHomeCot
    \/ CallStatus

Spec == Init /\ [][Next]_vars

-----------------------------------------------------------------------------
(* The CoT encoders and the ESP32 encoder called while the clock runs *)

InitCot ==
    /\ variant \in {"Tests", "Util"}
    /\ wall0 \in {StartTimes[i] : i \in 1..Len(StartTimes)}
    /\ InitGenerator
    /\ InitADSB
    /\ InitMenu
    /\ InitHttp

CallOpenSkyCot ==
    /\ variant = "Tests"
    /\ opensky_cot
    /\ UNCHANGED <<variant, wall0, adsbVars, menuVars, httpVars>>

\* Time passes between calls.
ClockTick ==
    /\ clock < MaxClock
    /\ clock' = clock + 1
    /\ UNCHANGED <<simulator, count, ncalls, lastSnap, variant, wall0, genVars, menuVars,
                   httpVars>>

NextCot ==
    \/ CallDroneCot
    \/ CallEsp32
    \/ CallPilotCot
    \/ CallHomeCot
    \/ CallStatus
    \/ CallOpenSkyCot
    \/ ClockTick

SpecCot == InitCot /\ [][NextCot]_vars

RECURSIVE ParseNat(_)
\* The number a string of decimal digits denotes.
ParseNat(digits) ==
    IF digits = <<>> THEN 0
    ELSE (10 * ParseNat(SubSeq(digits, 1, Len(digits) - 1)))
         + ((CHOOSE k \in 1..10 : DecDigits[k] = digits[Len(digits)]) - 1)

\* The day number, counted from 1970-01-01, of a Gregorian date.
DaysFromCivil(y, m, d) ==
    LET yy == IF m <= 2 THEN y - 1 ELSE y
        era == yy \div 400
        yoe == yy - (era * 400)
        doy == (((153 * (IF m > 2 THEN m - 3 ELSE m + 9)) + 2) \div 5) + d - 1
        doe == (yoe * 365) + (yoe \div 4) - (yoe \div 100) + doy
    IN  (era * 146097) + doe - 719468

\* The instant a CoT timestamp YYYY-MM-DDTHH:MM:SS.ffffffZ denotes, in seconds
\* since the epoch (the fraction is required to be zero).
ParseTime(ts) ==
    (DaysFromCivil(ParseNat(SubSeq(ts, 1, 4)), ParseNat(SubSeq(ts, 6, 7)),
                   ParseNat(SubSeq(ts, 9, 10))) * 86400)
    + (ParseNat(SubSeq(ts, 12, 13)) * 3600) + (ParseNat(SubSeq(ts, 15, 16)) * 60)
    + ParseNat(SubSeq(ts, 18, 19))

CotReturned == ret.op \in {"drone_cot", "pilot_cot", "home_cot", "status", "opensky_cot"}

\* C18: in every encoded CoT event (drone, pilot, home, status, OpenSky) the
\* stale timestamp denotes the instant of the time timestamp plus exactly ten
\* minutes, and start is the same string as time.
C18_StaleIsTimePlusTenMinutes ==
    CotReturned =>
        /\ Len(ret.val.time) = 27 /\ Len(ret.val.stale) = 27
        /\ ParseTime(ret.val.stale) = ParseTime(ret.val.time) + 600
        /\ ret.val.start = ret.val.time

\* A status event encoded in the last ten minutes of 2025, after the clock has
\* advanced: its stale timestamp lies in 2026.
C18_Witness ==
    /\ ret.op = "status" /\ clock >= 1
    /\ SubSeq(ret.val.time, 1, 10) = <<"2", "0", "2", "5", "-", "1", "2", "-", "3", "1">>
    /\ SubSeq(ret.val.stale, 1, 19) =
         <<"2", "0", "2", "6", "-", "0", "1", "-", "0", "1", "T",
           "0", "0", ":", "0", "0", ":", "0", "0">>

\* C19 as stated: every heading the program emits, after rounding to one
\* decimal, is at least 0 and strictly below 360 degrees (headings are held in
\* tenths of a degree): the drone CoT course, the ESP32 direction, the status
\* track and the track of every ADS-B entry.
C19_HeadingsBelow360 ==
    /\ ret.op = "drone_cot" => ret.val.course \in 0..3599
    /\ ret.op = "esp32" => ret.val.direction \in 0..3599
    /\ ret.op = "status" => ret.val.track \in 0..3599
    /\ ret.op = "get_aircraft_json" =>
        \A i \in 1..Len(ret.val.aircraft) : ret.val.aircraft[i].track \in 0..3599

-----------------------------------------------------------------------------
(* The UID functions on arbitrary drone identities *)

IdPieces == {DronePrefix, <<"A">>, <<"d", "r">>, <<"o", "n", "e", "-">>}

RECURSIVE Concats(_)
\* Every concatenation of at most k pieces.
Concats(k) ==
    IF k = 0 THEN {<<>>}
    ELSE Concats(k - 1) \cup {s \o p : s \in Concats(k - 1), p \in IdPieces}

InitUid ==
    /\ variant \in {"Tests", "Util"}
    /\ wall0 = StartTimes[1]
    /\ fpv = NoAttr /\ firstDet = <<>> /\ nupd = 0
    /\ current_drone_index = 0
    /\ current_drone_id \in Concats(MaxParts)
    /\ ret = ReturnNone("init")
    /\ InitADSB
    /\ InitMenu
    /\ InitHttp

NextUid ==
    \/ CallPilotCot
    \/ CallHomeCot

SpecUid == InitUid /\ [][NextUid]_vars

-----------------------------------------------------------------------------
(* Properties of the FPV detection state, under Spec *)

FpvUpdateReturned == ret.op = "fpv_update" /\ ~ret.returns_none
FpvDetectionReturned == ret.op = "fpv_detection"
DetectionOf(r) == r.val[1].FPV_Detection

RECURSIVE UpToSpace(_)
\* The part of a string before its first space: the source an AdvA value names.
UpToSpace(s) ==
    IF s = <<>> \/ Head(s) = " " THEN <<>> ELSE <<Head(s)>> \o UpToSpace(Tail(s))

\* C1: while no detection has been generated, no FPV detection state exists and
\* an update call returns None; it never returns a payload and never creates
\* the state.
C1_UpdateBeforeDetectionIsNone ==
    firstDet = <<>> =>
        /\ fpv = NoAttr
        /\ ret.op = "fpv_update" => ret.returns_none

\* An update call has been made before any detection.
C1_Witness == ret.op = "fpv_update" /\ firstDet = <<>> /\ ret.returns_none

\* C2: after the first detection message, every update message names in
\* aext.AdvA the detection_source of that first message, and every later
\* detection message carries it too.
C2_SameDetectionSource ==
    firstDet # <<>> =>
        /\ FpvUpdateReturned => UpToSpace(ret.val.aext.AdvA) = firstDet[1]
        /\ FpvDetectionReturned => DetectionOf(ret).detection_source = firstDet[1]

\* An update message generated after several updates of a created state.
C2_Witness ==
    /\ FpvUpdateReturned /\ nupd >= 2
    /\ UpToSpace(ret.val.aext.AdvA) = firstDet[1]
    /\ Len(firstDet[1]) = 7

\* C3: in the Tests script the stored signal strength, and the one an update
\* message reports, lie in [1000, 1600] in every reachable state.
C3_RssiWithinClamp ==
    variant = "Tests" =>
        /\ fpv # NoAttr => fpv.rssi.v \in ClampLo..ClampHi
        /\ FpvUpdateReturned => ret.val.AUX_ADV_IND.rssi.v \in ClampLo..ClampHi

\* An update whose sum fell below the range was clamped to the lower bound.
C3_Witness ==
    /\ variant = "Tests" /\ FpvUpdateReturned
    /\ fpv.rssi = PyInt(ClampLo) /\ ret.val.AUX_ADV_IND.rssi = PyInt(ClampLo)

\* C4: the stored frequency, source_inst, source_node and detection_source never
\* change once the state exists, and every update message reports the stored
\* frequency.
C4_FrequencyAndSourceImmutable ==
    /\ [](FpvUpdateReturned => ret.val.frequency = fpv.frequency)
    /\ [][fpv # NoAttr =>
            /\ fpv' # NoAttr
            /\ fpv'.frequency = fpv.frequency
            /\ fpv'.source_inst = fpv.source_inst
            /\ fpv'.source_node = fpv.source_node
            /\ fpv'.detection_source = fpv.detection_source]_vars

\* An update of a Tests state tuned to a channel other than the first.
C4_Witness ==
    /\ variant = "Tests" /\ FpvUpdateReturned /\ nupd >= 2
    /\ fpv.frequency = FreqChannels[2] /\ ret.val.frequency = FreqChannels[2]

\* C6: a detection call that finds a state leaves every field of it unchanged,
\* and the frequency, detection_source and signal_strength it emits are the
\* stored values.
C6_DetectionReusesState ==
    /\ [](FpvDetectionReturned =>
            /\ DetectionOf(ret).frequency = fpv.frequency
            /\ DetectionOf(ret).detection_source = fpv.detection_source
            /\ DetectionOf(ret).signal_strength = fpv.rssi)
    /\ [][(fpv # NoAttr /\ ret'.op = "fpv_detection") => fpv' = fpv]_vars

\* A detection message after updates, whose signal strength no fresh draw gives.
C6_Witness ==
    /\ FpvDetectionReturned /\ nupd >= 1
    /\ DetectionOf(ret).signal_strength.v \notin RssiDraws
    /\ DetectionOf(ret).signal_strength = fpv.rssi

-----------------------------------------------------------------------------
(* main_menu and quick_test_mode: the broadcast sessions *)

MainChoices ==
    IF variant = "Tests" THEN {"1", "2", "3", "4", "5", "6", "7", "8"}
    ELSE {"1", "2", "3", "4", "5", "6", "7"}
QuickChoices == IF variant = "Tests" THEN {"X1", "X2", "X3", "X4", "X5"} ELSE {}

\* Mutant: the quick-test loops ask for an update at every tick, the first included.
QuickFpvCallUpdateOnly(tick) == "update"

\* quick_test_mode: a detection at tick 1, an update at every later tick.
QuickFpvCall(tick) == IF tick = 1 THEN "detection" ELSE "update"

\* The generator calls one tick of the loop makes, in order.
Script(ch, tick) ==
    CASE ch = "1" -> <<"drone">>
      [] ch = "2" -> <<"pilot">>
      [] ch = "3" -> <<"home">>
      [] ch = "4" -> <<"status">>
      [] ch = "5" -> <<"esp32">>
      [] ch = "6" -> <<"detection">>
      [] ch = "7" -> <<"drone", "pilot", "home", "status">>
      [] ch = "8" -> <<"esp32", "detection", "update">>
      [] ch = "X1" -> <<"drone", "pilot", "home", "status">>
      [] ch = "X2" -> <<QuickFpvCall(tick)>>
      [] ch = "X3" -> <<"drone", QuickFpvCall(tick), "status">>
      [] ch = "X4" -> <<"drone", "status">>
      [] ch = "X5" -> <<"drone", "pilot", "home", "status", QuickFpvCall(tick)>>

\* The number of the tick the next call belongs to.
TickNo == IF step = 1 THEN counter + 1 ELSE counter
CurrentCall == Script(choice, TickNo)[step]
CanStep == pc = "loop" /\ (step = 1 => counter < MaxTicks)

\* Whether the send of a message succeeds or raises a transport error (OSError
\* from sendto, zmq.ZMQError from send_string); nothing is sent when sends is FALSE.
SendOutcomes(sends) == IF sends THEN {"sent", "error"} ELSE {"sent"}

\* Where control is after a send raised: the loops catch KeyboardInterrupt only,
\* so the error leaves main_menu and the handler of __main__ prints it; the
\* process ends.
AfterSendError(p) == "terminated"

\* The loop position after a call and the send of its message: choice 6 enters
\* its update loop after the detection, every other choice goes on to the next
\* call or the next tick.
Advance(sends) ==
    /\ \E outcome \in SendOutcomes(sends) :
        /\ sendError' = (sendError \/ outcome = "error")
        /\ IF outcome = "error"
           THEN pc' = AfterSendError(pc) /\ counter' = TickNo /\ step' = step
           ELSE IF choice = "6"
                THEN pc' = "fpv_loop" /\ counter' = 0 /\ step' = 1
                ELSE /\ pc' = pc
                     /\ counter' = TickNo
                     /\ step' = IF step = Len(Script(choice, TickNo)) THEN 1 ELSE step + 1
    /\ UNCHANGED <<choice, socks, session>>

\* The setup of a session with choice c: the session's sockets are opened and the
\* loop is entered.  Quick-test option 5 first sets up its optional services,
\* leaving the handles given in services, and starts an HTTPServer with the
\* ReadsbHTTPHandler in a daemon thread unless that setup raises (adsb is then
\* "failed"); it does not assign the handler's simulator.
EnterLoopWith(c, adsb, services) ==
    /\ pc = "menu" /\ session < MaxSessions
    /\ choice' = c
    /\ pc' = "loop" /\ counter' = 0 /\ step' = 1
    /\ socks' = "open" /\ session' = session + 1 /\ uidLog' = <<>>
    /\ sendError' = sendError
    /\ serving' = IF c = "X5" /\ adsb = "ok" THEN "X5" ELSE serving
    /\ svc' = services
    /\ UNCHANGED <<variant, wall0, genVars, adsbVars, resp>>

\* A session in which the HTTPServer starts and no MQTT or TAK handle is in use.
EnterLoop(c) == EnterLoopWith(c, "ok", svc)

\* A choice 1-8 (or a quick-test choice) starts a session.
StartSession == \E c \in MainChoices \cup QuickChoices : EnterLoop(c)

LoopDrone ==
    /\ CanStep /\ CurrentCall = "drone"
    /\ generate_drone_cot_with_track
    /\ Advance(TRUE) /\ uidLog' = Append(uidLog, ret'.val.uid)
    /\ UNCHANGED <<variant, wall0, adsbVars, httpVars>>

LoopEsp32 ==
    /\ CanStep /\ CurrentCall = "esp32"
    /\ generate_esp32_format
    /\ Advance(TRUE) /\ uidLog' = Append(uidLog, ret'.val.uid)
    /\ UNCHANGED <<variant, wall0, adsbVars, httpVars>>

LoopPilot ==
    /\ CanStep /\ CurrentCall = "pilot"
    /\ generate_pilot_cot
    /\ Advance(TRUE) /\ UNCHANGED <<uidLog, variant, wall0, adsbVars, httpVars>>

LoopHome ==
    /\ CanStep /\ CurrentCall = "home"
    /\ generate_home_cot
    /\ Advance(TRUE) /\ UNCHANGED <<uidLog, variant, wall0, adsbVars, httpVars>>

LoopStatus ==
    /\ CanStep /\ CurrentCall = "status"
    /\ generate_status_message
    /\ Advance(TRUE) /\ UNCHANGED <<uidLog, variant, wall0, adsbVars, httpVars>>

LoopFpvDetection ==
    /\ CanStep /\ CurrentCall = "detection"
    /\ generate_fpv_detection_message
    /\ Advance(TRUE) /\ UNCHANGED <<uidLog, variant, wall0, adsbVars, httpVars>>

\* Choices 8 and X2, X3, X5 send the update only if it is not None.
LoopFpvUpdate ==
    /\ CanStep /\ CurrentCall = "update"
    /\ generate_fpv_update_message
    /\ Advance(~ret'.returns_none) /\ UNCHANGED <<uidLog, variant, wall0, adsbVars, httpVars>>

\* Choice 6's inner loop encodes the update unchecked: None raises AttributeError,
\* which no handler of the loop catches.
FpvLoopUpdate ==
    /\ pc = "fpv_loop" /\ counter < MaxTicks
    /\ generate_fpv_update_message
    /\ counter' = counter + 1
    /\ \E outcome \in SendOutcomes(~ret'.returns_none) :
        /\ sendError' = (sendError \/ outcome = "error")
        /\ pc' = IF ret'.returns_none THEN "crashed"
                 ELSE IF outcome = "error" THEN AfterSendError(pc) ELSE pc
    /\ UNCHANGED <<choice, step, socks, session, uidLog, variant, wall0, adsbVars, httpVars>>

\* KeyboardInterrupt in the loop: the handler closes the sockets (or destroys the
\* ZMQ context) and control returns to the menu.  Quick-test option 5 also
\* disconnects and closes the service handles it holds and shuts its HTTPServer down.
Interrupt ==
    /\ pc = "loop"
    /\ pc' = "menu" /\ socks' = "closed" /\ counter' = 0 /\ step' = 1
    /\ serving' = IF choice = "X5" THEN "no" ELSE serving
    /\ svc' = NoServices
    /\ UNCHANGED <<choice, session, uidLog, sendError, variant, wall0, genVars, adsbVars, resp>>

\* KeyboardInterrupt in choice 6's update loop: the inner handler breaks out of
\* the broadcast loop, past the outer handler and its cleanup.
InterruptFpvLoop ==
    /\ pc = "fpv_loop"
    /\ pc' = "menu" /\ counter' = 0 /\ step' = 1
    /\ UNCHANGED <<socks, choice, session, uidLog, sendError, variant, wall0, genVars, adsbVars,
                   httpVars>>

NextMenu ==
    \/ StartSession
    \/ LoopDrone
    \/ LoopEsp32
    \/ LoopPilot
    \/ LoopHome
    \/ LoopStatus
    \/ LoopFpvDetection
    \/ LoopFpvUpdate
    \/ FpvLoopUpdate
    \/ Interrupt
    \/ InterruptFpvLoop

SpecMenu == Init /\ [][NextMenu]_vars

\* C5: the FPV detection state is never removed once created, across the
\* broadcast sessions of one generator, so every update call made after the
\* first detection returns a message.
C5_FpvStateNeverExpires ==
    /\ []((ret.op = "fpv_update" /\ firstDet # <<>>) => ~ret.returns_none)
    /\ [][fpv # NoAttr => fpv' # NoAttr]_vars

\* An update in a second session on the state an earlier session created and updated.
C5_Witness ==
    /\ session = 2 /\ choice = "X2" /\ counter = 2
    /\ FpvUpdateReturned /\ nupd >= 2

\* C7 as stated: all drone messages of one broadcast loop carry the same uid.
C7_SameUidEveryTick ==
    \A i, j \in 1..Len(uidLog) : uidLog[i] = uidLog[j]

\* C7 amended: in the Tests script the drone messages of one broadcast loop
\* carry the uids of the fixed pool drone_ids in round-robin order, so a uid
\* recurs in every third drone message; in the Util script, which has no pool,
\* they all carry one uid.
C7_UidRoundRobinOverPool ==
    /\ variant = "Tests" =>
        \E k \in 0..(Len(drone_ids) - 1) :
            \A i \in 1..Len(uidLog) : uidLog[i] = drone_ids[((k + i) % Len(drone_ids)) + 1]
    /\ variant = "Util" =>
        \A i, j \in 1..Len(uidLog) : uidLog[i] = uidLog[j]

\* A loop that has emitted four drone messages: the fourth repeats the first uid.
C7_Witness ==
    /\ variant = "Tests" /\ Len(uidLog) >= 4
    /\ uidLog[4] = uidLog[1] /\ uidLog[2] # uidLog[1] /\ uidLog[3] # uidLog[2]

\* The drone identity with a leading 'drone-' removed and no other character changed.
StripLeadingPrefix(id) ==
    IF IsPrefix(DronePrefix, id) THEN SubSeq(id, Len(DronePrefix) + 1, Len(id)) ELSE id

C13_SendErrorLoopContinues ==
    sendError => pc \in {"loop", "fpv_loop"}

\* C14 as stated: an interrupt at any point of a broadcast loop, the FPV update
\* sub-loop of choice 6 included, releases the session's transport resources
\* before control returns to the menu.
C14_InterruptReleasesResources ==
    (pc = "menu" /\ session >= 1) => socks = "closed"

-----------------------------------------------------------------------------
(* ADSBSimulator *)

HexLo == 1048576     \* 0x100000
HexHi == 16777215    \* 0xFFFFFF
MessagesCount == 123456

HexDraws == GridPoints(HexLo, HexHi, NumHex)
\* random.uniform(0.02, 0.05), in thousandths
SpeedDraws == GridPoints(20, 50, NumKin)
\* random.uniform(0, 2 * pi), in thousandths of a radian
PhaseDraws == GridPoints(0, 6283, NumKin)

\* Mutant: pattern, lane and altitude are computed from the 1-based number.
NewAircraftOneBased(i, hex, speed, phase) ==
    [hex |-> Fmt06X(hex),
     flight |-> <<"T", "E", "S", "T">> \o Fmt02d(i + 1),
     pattern |-> (i + 1) % 3,
     lane |-> 4 + ((i + 1) * 3),
     speed |-> 50 + speed,
     alt |-> 10000 + ((i + 1) * 3000),
     phase |-> phase]

\* Aircraft number i (0-based) as __init__ appends it.  lane is in hundredths of
\* a degree, speed in thousandths, phase in thousandths of a radian.
NewAircraft(i, hex, speed, phase) ==
    [hex |-> Fmt06X(hex),
     flight |-> <<"T", "E", "S", "T">> \o Fmt02d(i + 1),
     pattern |-> i % 3,
     lane |-> 4 + (i * 3),
     speed |-> 50 + speed,
     alt |-> 10000 + (i * 3000),
     phase |-> phase]

\* center_lat and center_lon, in millionths of a degree.
CenterLat == 37240000
CenterLon == -115810000
\* The look-ahead dt = 0.01, in thousandths of a radian.
LookAhead == 10
\* The count start_adsb_server passes to ADSBSimulator.
FleetCount == 5

\* move_t = (t * speed) + phase, in thousandths of a radian, t being reduced by
\* whole turns before the product.
MoveT(ac, t) == ((t % TwoPiMilli) * ac.speed) + ac.phase

\* lat_off and lon_off at angle m, in halves of a millionth of a degree (lane is
\* in hundredths of a degree and the sine in thousandths).
LatOff(ac, m) ==
    IF ac.pattern = 0 THEN 2 * ac.lane * 10 * SinMilli(m)
    ELSE IF ac.pattern = 1 THEN 2 * ac.lane * 10 * SinMilli(m)
    ELSE 2 * ac.lane * 7 * SinMilli(m)
LonOff(ac, m) ==
    IF ac.pattern = 0 THEN 2 * ac.lane * 10 * CosMilli(m)
    ELSE IF ac.pattern = 1 THEN ac.lane * 15 * SinMilli(2 * m)
    ELSE 2 * ac.lane * 18 * CosMilli(m)

\* track before rounding, in hundredths of a degree: the direction from the
\* position at move_t to the position at move_t + dt.
TrackCenti(ac, m) ==
    HeadingCenti(LonOff(ac, m + LookAhead) - LonOff(ac, m),
                 LatOff(ac, m + LookAhead) - LatOff(ac, m))

\* The entry get_aircraft_json appends for one stored aircraft at clock value t:
\* track in tenths of a degree, lat and lon in millionths.
AircraftEntry(ac, t) ==
    [hex |-> ac.hex, flight |-> ac.flight, alt_baro |-> ac.alt,
     gs |-> PyFloat(200 + (ac.lane * 10)),
     track |-> Round1(TrackCenti(ac, MoveT(ac, t))),
     lat |-> RoundHalfEven((2 * CenterLat) + LatOff(ac, MoveT(ac, t)), 2),
     lon |-> RoundHalfEven((2 * CenterLon) + LonOff(ac, MoveT(ac, t)), 2),
     category |-> "A1"]

\* Mutant: the loop stops one aircraft early.
SnapshotAircraftShort(acs, t) ==
    [i \in 1..(Len(acs) - 1) |-> AircraftEntry(acs[i], t)]

\* Mutant: every call moves the aircraft on, whatever the clock reads.
SnapshotAircraftDrifting(acs, t) ==
    [i \in 1..Len(acs) |-> AircraftEntry(acs[i], t + ncalls)]

\* current_aircraft: one entry per stored aircraft, in list order, all of them
\* computed from the one clock value t.
SnapshotAircraft(acs, t) ==
    [i \in 1..Len(acs) |-> AircraftEntry(acs[i], t)]

\* Mutant: the call stores the advanced phase back into every record.
SimulatorAfterSnapshotAdvanced(sim) ==
    [sim EXCEPT !.aircraft =
        [i \in 1..Len(sim.aircraft) |->
            [sim.aircraft[i] EXCEPT !.phase = @ + sim.aircraft[i].speed]]]

\* Mutant: the call removes the last record it has served.
SimulatorAfterSnapshotConsumed(sim) ==
    [sim EXCEPT !.aircraft = SubSeq(sim.aircraft, 1, Len(sim.aircraft) - 1)]

\* The simulator object after get_aircraft_json: the loop reads each record into
\* locals and appends to the local list current_aircraft; self.aircraft and the
\* records in it are never assigned.
SimulatorAfterSnapshot(sim) == sim

\* ADSBSimulator(n): n records from fresh draws.
ADSBSimulator(n) ==
    /\ \E hex \in [1..n -> HexDraws], speed \in [1..n -> SpeedDraws],
          phase \in [1..n -> PhaseDraws] :
            simulator' =
                [aircraft |-> [i \in 1..n |-> NewAircraft(i - 1, hex[i], speed[i], phase[i])]]
    /\ count' = n
    /\ ncalls' = 0
    /\ lastSnap' = NoAttr
    /\ ret' = ReturnNone("ADSBSimulator")

\* A simulator is constructed and assigned to ReadsbHTTPHandler.simulator.  A
\* behaviour follows one simulator object: a later start of the server builds
\* another object, whose life is another behaviour of the same form.
ADSBSimulator_init ==
    /\ simulator = NoAttr
    /\ \E n \in 0..MaxCount : ADSBSimulator(n)
    /\ UNCHANGED <<clock, variant, wall0, fpv, current_drone_index, current_drone_id, firstDet, nupd,
                   menuVars, httpVars>>

\* get_aircraft_json: t = time.time() is read first, the entries are computed
\* from it, and "now" is a second time.time(), read when the dict is built; the
\* clock may have advanced in between.
get_aircraft_json ==
    /\ simulator # NoAttr /\ ncalls < MaxCalls
    /\ \E elapsed \in 0..1 :
        LET t == Time
            now == Time + elapsed
            current_aircraft == SnapshotAircraft(simulator.aircraft, t)
        IN  /\ clock + elapsed <= MaxClock
            /\ clock' = clock + elapsed
            /\ ret' = Return("get_aircraft_json",
                             [now |-> now, messages |-> MessagesCount,
                              aircraft |-> current_aircraft])
            /\ lastSnap' = [t |-> t, aircraft |-> current_aircraft]
    /\ ncalls' = ncalls + 1
    /\ simulator' = SimulatorAfterSnapshot(simulator)
    /\ UNCHANGED count

CallGetAircraftJson ==
    /\ get_aircraft_json
    /\ UNCHANGED <<variant, wall0, fpv, current_drone_index, current_drone_id, firstDet, nupd,
                   menuVars, httpVars>>

InitSim ==
    /\ variant = "Tests"
    /\ wall0 = StartTimes[1]
    /\ InitGenerator
    /\ InitADSB
    /\ InitMenu
    /\ InitHttp

NextADSB ==
    \/ ADSBSimulator_init
    \/ CallGetAircraftJson
    \/ ClockTick

SpecADSB == InitSim /\ [][NextADSB]_vars

SnapshotReturned == ret.op = "get_aircraft_json"

\* C9: every get_aircraft_json call on a simulator created with count N returns
\* exactly N records, one per stored aircraft and in creation order.
C9_SnapshotHasCountRecords ==
    SnapshotReturned =>
        /\ Len(ret.val.aircraft) = count
        /\ \A i \in 1..count :
            /\ ret.val.aircraft[i].hex = simulator.aircraft[i].hex
            /\ ret.val.aircraft[i].flight = <<"T", "E", "S", "T">> \o Fmt02d(i)

\* A second snapshot of a three-aircraft simulator.
C9_Witness ==
    /\ SnapshotReturned /\ count = 3 /\ ncalls = 2
    /\ Len(ret.val.aircraft) = 3

\* C10: the hex IDs of the records of a snapshot are pairwise distinct.
C10_HexIdsDistinct ==
    SnapshotReturned =>
        \A i, j \in 1..Len(ret.val.aircraft) :
            i # j => ret.val.aircraft[i].hex # ret.val.aircraft[j].hex

-----------------------------------------------------------------------------
(* The ADS-B HTTP server: menu choice A and quick-test option 5 *)

AircraftPath == "/data/aircraft.json"

\* The paths a client may request.
RequestPaths == {AircraftPath, "/"}

\* start_adsb_server builds ADSBSimulator(count=5); the model caps the count.
ServerCount == IF 5 <= MaxCount THEN 5 ELSE MaxCount

\* What the handler sends for the aircraft path when a simulator is assigned.
Response200(path, data) ==
    [path |-> path, sent |-> TRUE, status |-> 200,
     headers |-> {[name |-> "Content-type", value |-> "application/json"],
                  [name |-> "Access-Control-Allow-Origin", value |-> "*"]},
     body |-> data]

\* What the handler sends for any other path.
Response404(path) == [path |-> path, sent |-> TRUE, status |-> 404, headers |-> {}]

\* The handler returns without calling send_response: the client gets no response.
NoResponse(path) == [path |-> path, sent |-> FALSE]

\* Menu choice A: the simulator is built and assigned to the handler class, then
\* serve_forever runs in the main thread until it is interrupted.
start_adsb_server ==
    /\ variant = "Tests" /\ pc = "menu" /\ simulator = NoAttr
    /\ ADSBSimulator(ServerCount)
    /\ pc' = "adsb_server" /\ serving' = "A"
    /\ UNCHANGED <<clock, variant, wall0, fpv, current_drone_index, current_drone_id, firstDet, nupd,
                   choice, counter, step, socks, session, uidLog, sendError, resp, svc>>

\* KeyboardInterrupt in serve_forever: the server is shut down and the menu
\* returns; ReadsbHTTPHandler.simulator keeps the simulator.
StopAdsbServer ==
    /\ pc = "adsb_server"
    /\ pc' = "menu" /\ serving' = "no"
    /\ UNCHANGED <<variant, wall0, genVars, adsbVars, choice, counter, step, socks, session, uidLog,
                   sendError, resp, svc>>

\* Quick-test option 5 chosen from the menu.
StartQuickTest5 == variant = "Tests" /\ session < MaxQuick /\ EnterLoop("X5")

\* One GET request handled by ReadsbHTTPHandler, in the thread of the server.
do_GET ==
    /\ serving # "no" /\ pc \notin {"crashed", "terminated"}
    /\ \E path \in RequestPaths :
        IF path = AircraftPath
        THEN IF simulator # NoAttr
             THEN /\ get_aircraft_json
                  /\ resp' = Response200(path, ret'.val)
             ELSE /\ resp' = NoResponse(path)
                  /\ UNCHANGED <<adsbVars, ret>>
        ELSE /\ resp' = Response404(path)
             /\ UNCHANGED <<adsbVars, ret>>
    /\ UNCHANGED <<serving, svc, variant, wall0, fpv, current_drone_index, current_drone_id,
                   firstDet, nupd, menuVars>>

NextServer ==
    \/ start_adsb_server
    \/ StopAdsbServer
    \/ StartQuickTest5
    \/ LoopDrone
    \/ LoopPilot
    \/ LoopHome
    \/ LoopStatus
    \/ LoopFpvDetection
    \/ LoopFpvUpdate
    \/ Interrupt
    \/ do_GET

SpecServer == InitSim /\ [][NextServer]_vars

C12_EveryGetAnswered ==
    resp # NoRequest =>
        /\ resp.sent
        /\ resp.path = AircraftPath =>
            /\ resp.status = 200
            /\ [name |-> "Content-type", value |-> "application/json"] \in resp.headers
            /\ [name |-> "Access-Control-Allow-Origin", value |-> "*"] \in resp.headers
            /\ Len(resp.body.aircraft) = count
        /\ resp.path # AircraftPath => resp.status = 404

\* A step of the HTTP handler, and a step of the broadcast loop.
HandlerStep == resp' # resp \/ ncalls' # ncalls
LoopStep == pc = "loop" /\ pc' = "loop" /\ (counter' # counter \/ step' # step)

\* C15: the server thread and the broadcast loop of quick-test option 5 share no
\* state that either writes: a request leaves the FPV state, the drone-id index
\* and the current drone id as they are and only reads the aircraft record set,
\* a loop step leaves the simulator and the last response as they are, and the
\* drone-id index moves only in a step in which the loop emits a drone message,
\* by one, whatever requests were served in between.
C15_NoSharedWrittenState ==
    /\ [][HandlerStep =>
            /\ UNCHANGED <<fpv, current_drone_index, current_drone_id, firstDet, nupd>>
            /\ simulator' = simulator]_vars
    /\ [][LoopStep => UNCHANGED <<simulator, count, ncalls, resp>>]_vars
    /\ [][current_drone_index' # current_drone_index =>
            /\ current_drone_index' = (current_drone_index + 1) % Len(drone_ids)
            /\ uidLog' = Append(uidLog, drone_ids[current_drone_index' + 1])]_vars

\* Requests served between the ticks of a loop that has created and updated the
\* FPV state.
C15_Witness ==
    /\ serving = "X5" /\ simulator # NoAttr /\ ncalls >= 1 /\ counter >= 2
    /\ fpv # NoAttr /\ nupd >= 1 /\ current_drone_index = 2
    /\ resp.sent /\ resp.status = 200 /\ Len(resp.body.aircraft) = ServerCount

\* C16: the aircraft list of a snapshot is a function of the stored records and
\* the clock value t alone: a snapshot taken at the same t as the one before it
\* holds the same list, however many calls and whatever generator activity
\* came before (the clock never goes back, so snapshots at one t are
\* consecutive).
C16_SnapshotPureInT ==
    [][(ncalls' = ncalls + 1 /\ lastSnap # NoAttr /\ lastSnap'.t = lastSnap.t) =>
            lastSnap'.aircraft = lastSnap.aircraft]_vars

\* Two snapshots taken at the same clock value (the clock has not moved since
\* the start), with drone messages sent in between.
C16_Witness ==
    /\ ncalls = 2 /\ clock = 0 /\ lastSnap # NoAttr
    /\ lastSnap.t = Time /\ Len(lastSnap.aircraft) = ServerCount
    /\ serving = "X5" /\ counter >= 1

\* C17 as stated: all positions and tracks of a snapshot are computed at one
\* clock reading t, and the snapshot's now equals that t, also when the clock
\* advances during the call.
C17_SnapshotTimeCoherent ==
    SnapshotReturned =>
        /\ ret.val.now = lastSnap.t
        /\ ret.val.aircraft = [i \in 1..count |-> AircraftEntry(simulator.aircraft[i], lastSnap.t)]

-----------------------------------------------------------------------------
(* The fleet of the ADS-B server: start_adsb_server's simulator of five aircraft *)

\* Wall-clock times at which the server may be started: 2026-11-01T12:00:00Z and
\* 2026-11-01T13:14:56Z, one second before t is a whole number of turns.
FleetTimes == {1793534400, 1793538896}

InitFleet ==
    /\ variant = "Tests"
    /\ wall0 \in FleetTimes
    /\ InitGenerator
    /\ InitADSB
    /\ InitMenu
    /\ InitHttp

\* simulator = ADSBSimulator(count=5)
FleetStart ==
    /\ simulator = NoAttr
    /\ ADSBSimulator(FleetCount)
    /\ UNCHANGED <<clock, variant, wall0, fpv, current_drone_index, current_drone_id, firstDet, nupd,
                   menuVars, httpVars>>

NextFleet ==
    \/ FleetStart
    \/ CallGetAircraftJson
    \/ ClockTick

SpecFleet == InitFleet /\ [][NextFleet]_vars

\* C21 as stated: no two distinct aircraft of one snapshot have the same
\* (lat, lon) position, whatever the clock reads and whatever phases and speeds
\* were drawn, aircraft of the same pattern kind included.
C21_AircraftNeverOverlap ==
    SnapshotReturned =>
        \A i, j \in 1..Len(ret.val.aircraft) :
            i < j => <<ret.val.aircraft[i].lat, ret.val.aircraft[i].lon>>
                     # <<ret.val.aircraft[j].lat, ret.val.aircraft[j].lon>>

-----------------------------------------------------------------------------
(* The FPV messages: types, ranges and distances *)

\* C22 as stated: every detection message is a one-element array wrapping an
\* FPV Detection object whose signal_strength is an integer, also when the
\* detection call follows updates of the stored signal strength.
C22_SignalStrengthIsInteger ==
    FpvDetectionReturned =>
        /\ Len(ret.val) = 1
        /\ DOMAIN ret.val[1] = {"FPV_Detection"}
        /\ DetectionOf(ret).signal_strength.t = "int"

\* C23 as stated: in the Util script the signal strength an update stores and
\* emits stays within a fixed operating range, the range 1250..3500 of the
\* detection's draw, however many updates have been applied.
C23_UtilRssiWithinRange ==
    variant = "Util" =>
        /\ fpv # NoAttr => fpv.rssi.v \in 1250..3500
        /\ FpvUpdateReturned => ret.val.AUX_ADV_IND.rssi.v \in 1250..3500

\* C24: in the Util script the direction an ESP32 message reports is, modulo
\* 360 degrees, the course the drone CoT reports for the same clock reading
\* minus 90 degrees, so the two are never the same heading.  Both are in tenths
\* of a degree; the clock reading is the message's runtime field.
C24_UtilDirectionIsCourseMinus90 ==
    (variant = "Util" /\ ret.op = "esp32") =>
        LET course == Round1(CourseCenti(ret.val.runtime))
        IN  /\ (ret.val.direction - (course - 900)) % 3600 = 0
            /\ ret.val.direction % 3600 # course % 3600

\* A Util ESP32 message whose direction wrapped below zero: the course is under
\* 90 degrees and the direction above 270.
C24_Witness ==
    /\ variant = "Util" /\ ret.op = "esp32" /\ clock >= 1
    /\ Round1(CourseCenti(ret.val.runtime)) < 900
    /\ ret.val.direction > 2700

-----------------------------------------------------------------------------
(* The broadcast loops: order and content of a tick *)

\* The choices whose tick broadcasts drone, pilot, home and status.
BroadcastAllChoices == {"7", "X1", "X5"}

\* C25: in a tick of a broadcast-all loop the messages are generated in the
\* order drone, pilot, home, status, and the pilot and home uids are pilot- and
\* home- followed by the uid of the drone message of that same tick (the last
\* uid logged, the tick's own).
C25_TickOrderAndUids ==
    (pc = "loop" /\ choice \in BroadcastAllChoices) =>
        /\ Len(uidLog) = TickNo - (IF step = 1 THEN 1 ELSE 0)
        /\ step = 2 => ret.op = "drone_cot" /\ ret.val.uid = uidLog[counter]
        /\ step = 3 => ret.op = "pilot_cot" /\ ret.val.uid = PilotPrefix \o uidLog[counter]
        /\ step = 4 => ret.op = "home_cot" /\ ret.val.uid = HomePrefix \o uidLog[counter]
        /\ (step = 5 \/ (step = 1 /\ counter >= 1 /\ choice # "X5")) => ret.op = "status"

\* The home message of the second tick of quick-test 5, carrying the uid of that
\* tick's drone message, which is not the uid of the first tick.
C25_Witness ==
    /\ variant = "Tests" /\ pc = "loop" /\ choice = "X5" /\ counter = 2 /\ step = 4
    /\ ret.op = "home_cot" /\ uidLog[2] # uidLog[1]
    /\ ret.val.uid = HomePrefix \o uidLog[2]

\* The FPV call the last completed tick position of a quick-test loop made.
QuickFpvDone ==
    /\ pc = "loop" /\ counter >= 1
    /\ \/ choice = "X2"
       \/ choice = "X3" /\ step = 3
       \/ choice = "X5" /\ step = 1

\* C26: in the broadcast loops an update is generated only when a detection has
\* created the state, so no update call of a loop returns None and choice 6's
\* unchecked encode never fails; the quick-test loops generate the detection at
\* tick 1 and an update at every later tick.
C26_UpdateOnlyAfterDetection ==
    /\ ret.op = "fpv_update" => (~ret.returns_none /\ fpv # NoAttr /\ firstDet # <<>>)
    /\ pc # "crashed"
    /\ QuickFpvDone => ret.op = (IF counter = 1 THEN "fpv_detection" ELSE "fpv_update")

\* The third tick of the quick-test FPV scenario: the second update of the state
\* the first tick's detection created.
C26_Witness ==
    /\ pc = "loop" /\ choice = "X2" /\ counter = 3 /\ session = 1
    /\ ret.op = "fpv_update" /\ ~ret.returns_none /\ nupd = 2


(***************************************************************************)
(* Quick-test "Everything At Once" with its optional services: MQTT, TAK   *)
(* and the ADS-B server.  Each setup is wrapped in try/except and leaves   *)
(* its handle None when it raises; the publish to MQTT and the send to TAK *)
(* of a tick are guarded by the handle and wrapped in try/except pass.     *)
(***************************************************************************)
\* MQTT is set up only if paho is importable (MQTT_AVAILABLE); connect can raise.
MqttSetupOutcomes == {"ok", "failed", "unavailable"}
\* The TAK connect and the HTTPServer start can raise.
SetupOutcomes == {"ok", "failed"}

\* The handle a setup leaves: the client or socket, or None.
HandleAfterSetup(outcome) == IF outcome = "ok" THEN "set" ELSE "none"

\* What the step of a service can do in a tick: skipped when the handle is None.
ServiceOutcomes(handle) == IF handle = "set" THEN {"ok", "failed"} ELSE {"skipped"}

AfterServiceErrorEnds(p) == "terminated"
\* Where control is after a publish or a TAK send raised: except Exception: pass.
AfterServiceError(p) == p

SetupEverything ==
    /\ variant = "Tests" /\ session < MaxQuick
    /\ \E mqtt \in MqttSetupOutcomes, tak \in SetupOutcomes, adsb \in SetupOutcomes :
        EnterLoopWith("X5", adsb,
                      [mqtt_client |-> HandleAfterSetup(mqtt),
                       tak_socket |-> HandleAfterSetup(tak),
                       setup |-> <<mqtt, tak, adsb>>,
                       mqttTick |-> 0, takTick |-> 0, failed |-> {}])

\* The messages of the tick are sent; its MQTT and TAK steps are still to run.
ServicesPending ==
    pc = "loop" /\ choice = "X5" /\ step = 1 /\ counter >= 1 /\ svc.takTick < counter

Quick5Drone == ~ServicesPending /\ LoopDrone

\* "3. Publish to MQTT"
Quick5Mqtt ==
    /\ ServicesPending /\ svc.mqttTick < counter
    /\ \E outcome \in ServiceOutcomes(svc.mqtt_client) :
        /\ svc' = [svc EXCEPT !.mqttTick = counter,
                              !.failed = IF outcome = "failed" THEN @ \cup {<<"mqtt", counter>>} ELSE @]
        /\ pc' = IF outcome = "failed" THEN AfterServiceError(pc) ELSE pc
    /\ UNCHANGED <<variant, wall0, genVars, adsbVars, choice, counter, step, socks, session,
                   uidLog, sendError, serving, resp>>

\* "4. Send to TAK"
Quick5Tak ==
    /\ ServicesPending /\ svc.mqttTick = counter
    /\ \E outcome \in ServiceOutcomes(svc.tak_socket) :
        /\ svc' = [svc EXCEPT !.takTick = counter,
                              !.failed = IF outcome = "failed" THEN @ \cup {<<"tak", counter>>} ELSE @]
        /\ pc' = IF outcome = "failed" THEN AfterServiceError(pc) ELSE pc
    /\ UNCHANGED <<variant, wall0, genVars, adsbVars, choice, counter, step, socks, session,
                   uidLog, sendError, serving, resp>>

NextQuick ==
    \/ SetupEverything
    \/ Quick5Drone
    \/ LoopPilot
    \/ LoopHome
    \/ LoopStatus
    \/ LoopFpvDetection
    \/ LoopFpvUpdate
    \/ Quick5Mqtt
    \/ Quick5Tak
    \/ Interrupt

SpecQuick == InitSim /\ [][NextQuick]_vars

\* C27: in quick-test "Everything At Once" a failing optional service is skipped
\* and the run goes on: a setup that raises (or MQTT being unavailable) leaves
\* its handle None (the HTTP server not serving) and the loop is entered all the
\* same; a publish or TAK send that raises changes nothing but the record of the
\* failure, the loop stays where it is, and no tick begins before the MQTT and
\* TAK steps of the tick before it have run.
C27_OptionalServicesDegrade ==
    /\ [](svc.setup # <<>> =>
            /\ svc.setup[1] # "ok" => svc.mqtt_client = "none"
            /\ svc.setup[2] # "ok" => svc.tak_socket = "none"
            /\ svc.setup[3] # "ok" => serving # "X5"
            /\ pc \in {"loop", "terminated"} /\ choice = "X5")
    /\ [][(svc.setup = <<>> /\ svc'.setup # <<>>) => (pc' = "loop" /\ counter' = 0 /\ step' = 1)]_vars
    /\ [][svc'.failed \ svc.failed # {} =>
            /\ pc' = "loop" /\ counter' = counter /\ step' = step /\ socks' = socks
            /\ svc'.mqtt_client = svc.mqtt_client /\ svc'.tak_socket = svc.tak_socket]_vars
    /\ []((pc = "loop" /\ svc.setup # <<>>) =>
            /\ svc.takTick <= svc.mqttTick /\ svc.mqttTick <= counter
            /\ svc.takTick >= counter - 1
            /\ step > 1 => svc.takTick = counter - 1 /\ svc.mqttTick = counter - 1)

\* MQTT was unavailable and the ADS-B server failed to start, TAK connected; the
\* TAK send of tick 1 raised, and the loop is in its third tick.
C27_Witness ==
    /\ svc.setup = <<"unavailable", "ok", "failed">> /\ svc.mqtt_client = "none" /\ serving = "no"
    /\ <<"tak", 1>> \in svc.failed
    /\ pc = "loop" /\ counter = 3 /\ step = 4 /\ svc.takTick = 2 /\ ret.op = "home_cot"



(***************************************************************************)
(* The estimated distance of an FPV lock                                   *)
(***************************************************************************)
\* A detection call that found the state an update had stored has returned.
ReuseAfterUpdate == FpvDetectionReturned /\ nupd >= 1

\* C28: the estimated distance is a function of the signal strength alone: a
\* detection that reuses the stored state, the stored signal strength being in
\* 1000..1600, carries the distance an update reporting that value carries.
C28_DistanceFunctionOfRssi ==
    (variant = "Tests" /\ ReuseAfterUpdate /\ DetectionOf(ret).signal_strength.v \in ClampLo..ClampHi) =>
        DetectionOf(ret).estimated_distance = PyFloat(Distance(DetectionOf(ret).signal_strength.v))



\* The interpolation the comment of the formula documents: 200 m at signal
\* strength 1200, 100 m at 1400, linear in between (in half metres).
DocumentedInterpolation(rssi) == HalfM(200) - (rssi - 1200)

\* C29: for a signal strength between 1200 and 1400 the estimated distance is the
\* linear interpolation between 200 m at 1200 and 100 m at 1400, joining the
\* 100 m reported from 1400 upwards without a jump.
C29_InterpolationEndpoints ==
    variant = "Tests" =>
        /\ (FpvDetectionReturned /\ DetectionOf(ret).signal_strength.v \in 1200..1400) =>
                DetectionOf(ret).estimated_distance.v =
                    DocumentedInterpolation(DetectionOf(ret).signal_strength.v)
        /\ (FpvUpdateReturned /\ ret.val.AUX_ADV_IND.rssi.v \in 1200..1400) =>
                ret.val.distance.v = DocumentedInterpolation(ret.val.AUX_ADV_IND.rssi.v)



(***************************************************************************)
(* The round-robin index of the Tests generator                            *)
(***************************************************************************)
DroneIdOps == {"drone_cot", "esp32"}

\* C30: in the Tests script current_drone_index is always in 0..len(drone_ids)-1
\* and current_drone_id is drone_ids[current_drone_index]; every call of
\* generate_drone_cot_with_track or generate_esp32_format advances the index by
\* one modulo len(drone_ids) and emits the id at the new index, so any three
\* consecutive such calls emit each id once; no other operation changes the
\* index or the id.
C30_RoundRobinIndex ==
    /\ [](variant = "Tests" =>
            /\ current_drone_index \in 0..(Len(drone_ids) - 1)
            /\ current_drone_id = drone_ids[current_drone_index + 1]
            /\ \A k \in 1..(Len(uidLog) - 2) :
                    {uidLog[k], uidLog[k + 1], uidLog[k + 2]} = {drone_ids[n] : n \in 1..Len(drone_ids)})
    /\ [][(variant = "Tests" /\ ret' # ret /\ ret'.op \in DroneIdOps) =>
            /\ current_drone_index' = (current_drone_index + 1) % Len(drone_ids)
            /\ ret'.val.uid = drone_ids[current_drone_index' + 1]]_vars
    /\ [][(variant = "Tests" /\ (current_drone_index' # current_drone_index
                                  \/ current_drone_id' # current_drone_id)) =>
            (ret' # ret /\ ret'.op \in DroneIdOps)]_vars

\* Choice 8 of the main menu, in a second session: four ESP32 messages after the
\* drone messages of the first session, the fourth carrying the id of the first.
C30_Witness ==
    /\ variant = "Tests" /\ session = 2 /\ choice = "8" /\ pc = "loop"
    /\ Len(uidLog) = 4 /\ uidLog[4] = uidLog[1] /\ uidLog[2] # uidLog[1]
    /\ ret.op = "esp32" /\ current_drone_index = 2


====
